---- MODULE Spec2Model ----
(***************************************************************************)
(* Knobase webhook receiver (src/bin/webhook.js): signature verification,  *)
(* event classification, message formatting and best-effort delivery to    *)
(* the Telegram API, composed by the POST /webhook/knobase handler.         *)
(*                                                                         *)
(* Text is a sequence of tokens.  A token is one character of an untrusted *)
(* field ("a", "&", "<", ">", the double quote, " "), a line break "\n",    *)
(* or a fixed piece of a template literal, which never holds white space    *)
(* at either end.  Emoji of the templates are written by name.              *)
(***************************************************************************)
EXTENDS Naturals, Sequences, FiniteSets

\* ------------------------------------------------------------------ bounds

\* Longest untrusted string drawn for one field.
MaxLen == 2
\* Request slots: the handler invocations that can be in flight together.
NumSlots == 2

Slots == 1..NumSlots

\* ------------------------------------------------------------ JS values

\* Characters of untrusted text.
Chars == {"a", "&", "<", ">", "\"", " "}

RECURSIVE SeqsUpTo(_)
SeqsUpTo(n) ==
  IF n = 0 THEN {<<>>}
  ELSE LET shorter == SeqsUpTo(n - 1)
       IN shorter \cup {Append(s, c) : s \in {x \in shorter : Len(x) = n - 1}, c \in Chars}

Strings == SeqsUpTo(MaxLen)

\* A JavaScript value: its type tag and, for a primitive, its text.
Undef == [t |-> "undefined"]
Null == [t |-> "null"]
Str(s) == [t |-> "string", s |-> s]
Num(s) == [t |-> "number", s |-> s]

\* ToBoolean: undefined, null, '' and 0 are falsy.
Truthy(v) ==
  CASE v.t = "undefined" -> FALSE
    [] v.t = "null" -> FALSE
    [] v.t = "string" -> v.s # <<>>
    [] v.t = "number" -> v.s # <<"0">>
    [] OTHER -> TRUE

\* The result of an expression that may throw.
Thrown == [ok |-> FALSE, s |-> <<>>]
Value(s) == [ok |-> TRUE, s |-> s]

\* ----------------------------------------------------------- event data

\* An object, as the record of its members.  The `data` member of an envelope
\* is an object or a primitive.
Obj(f) == [t |-> "object", f |-> f]

\* data.key on a value that is neither undefined nor null: undefined for a
\* member the object lacks, and for every key of a primitive.
Get(data, key) ==
  IF data.t = "object" /\ key \in DOMAIN data.f THEN data.f[key] ELSE Undef

\* data.key throws a TypeError on undefined and on null.
Derefs(data) == data.t \notin {"undefined", "null"}

\* ------------------------------------------------------------ formatting

RECURSIVE ReplaceAll(_, _, _)
\* String.prototype.replace with a one-character global pattern.
ReplaceAll(s, c, rep) ==
  IF s = <<>> THEN <<>>
  ELSE (IF Head(s) = c THEN rep ELSE <<Head(s)>>) \o ReplaceAll(Tail(s), c, rep)

\* escapeHtml with '&' replaced last.
escapeHtml_AmpLast(text) ==
  IF ~Truthy(text) THEN Value(<<>>)
  ELSE IF text.t # "string" THEN Thrown
  ELSE Value(ReplaceAll(ReplaceAll(ReplaceAll(text.s,
                 "<", <<"&", "l", "t", ";">>),
                 ">", <<"&", "g", "t", ";">>),
                 "&", <<"&", "a", "m", "p", ";">>))

\* escapeHtml(text): '' for a falsy value; text.replace is not a function on
\* a truthy value that is no string.
escapeHtml(text) ==
  IF ~Truthy(text) THEN Value(<<>>)
  ELSE IF text.t # "string" THEN Thrown
  ELSE Value(ReplaceAll(ReplaceAll(ReplaceAll(text.s,
                 "&", <<"&", "a", "m", "p", ";">>),
                 "<", <<"&", "l", "t", ";">>),
                 ">", <<"&", "g", "t", ";">>))

\* The timestamp strings Date can parse, and how the locale renders them.
IsoTimestamp == <<"2024-01-01T00:00:00Z">>
LocaleOfIso == <<"1/1/2024, 12:00:00 AM">>
LocaleOfEpoch == <<"1/1/1970, 12:00:00 AM">>
InvalidDate == <<"Invalid Date">>

\* new Date(v).toLocaleString(): never throws; a value Date cannot parse
\* gives an invalid date, rendered "Invalid Date".
toLocaleString(v) ==
  CASE v.t = "string" -> IF v.s = IsoTimestamp THEN LocaleOfIso ELSE InvalidDate
    [] v.t = "null" -> LocaleOfEpoch
    [] v.t = "number" -> LocaleOfEpoch
    [] OTHER -> InvalidDate

\* ${v} in a template literal, for a primitive.
ToText(v) ==
  CASE v.t = "undefined" -> <<"undefined">>
    [] v.t = "null" -> <<"null">>
    [] OTHER -> v.s

IsSpace(c) == c \in {" ", "\n"}

RECURSIVE TrimStart(_)
TrimStart(s) ==
  IF s # <<>> /\ IsSpace(Head(s)) THEN TrimStart(Tail(s)) ELSE s

RECURSIVE TrimEnd(_)
TrimEnd(s) ==
  IF s # <<>> /\ IsSpace(s[Len(s)]) THEN TrimEnd(SubSeq(s, 1, Len(s) - 1)) ELSE s

\* String.prototype.trim
Trim(s) == TrimEnd(TrimStart(s))

\* The template literal of formatMention, before .trim().
MentionTemplate(user, channel, time, message, context, link) ==
  <<"\n", "(dart) <b>@claw Mention in Knobase</b>", "\n", "\n",
    "<b>From:</b>", " ">> \o user \o
  <<"\n", "<b>Channel:</b>", " ">> \o channel \o
  <<"\n", "<b>Time:</b>", " ">> \o time \o
  <<"\n", "\n", "<b>Message:</b>", "\n">> \o message \o
  <<"\n", "\n">> \o context \o <<"\n">> \o link \o <<"\n", " ", " ">>

formatMention(data) ==
  IF ~Derefs(data) THEN Thrown
  ELSE
    LET user == escapeHtml(Get(data, "user"))
        ch == Get(data, "channel")
        channel == escapeHtml(IF Truthy(ch) THEN ch ELSE Str(<<"Unknown">>))
        time == toLocaleString(Get(data, "timestamp"))
        message == escapeHtml(Get(data, "message"))
        ctx == Get(data, "context")
        context == IF Truthy(ctx) THEN escapeHtml(ctx) ELSE Value(<<>>)
        contextPart == IF Truthy(ctx)
                       THEN <<"<b>Context:</b>", " ">> \o context.s \o <<"\n">>
                       ELSE <<>>
        url == Get(data, "url")
        link == IF Truthy(url)
                THEN <<"<a href=\"">> \o ToText(url) \o <<"\">(link) Open in Knobase</a>">>
                ELSE <<>>
    IN IF user.ok /\ channel.ok /\ message.ok /\ context.ok
       THEN Value(Trim(MentionTemplate(user.s, channel.s, time, message.s,
                                       contextPart, link)))
       ELSE Thrown

RedMarker == "(red circle)"
WhiteMarker == "(white circle)"
BlueMarker == "(blue circle)"

\* The template literal of formatNotification, before .trim().
NotificationTemplate(emoji, title, message, time) ==
  <<"\n", emoji, " ", "<b>">> \o title \o <<"</b>", "\n", "\n">> \o message \o
  <<"\n", "\n", "<i>">> \o time \o <<"</i>", "\n", " ", " ">>

\* formatNotification with the markers of 'high' and 'low' exchanged.
formatNotification_MarkersSwapped(data) ==
  IF ~Derefs(data) THEN Thrown
  ELSE
    LET priority == Get(data, "priority")
        emoji == IF priority = Str(<<"high">>) THEN WhiteMarker
                 ELSE IF priority = Str(<<"low">>) THEN RedMarker
                 ELSE BlueMarker
        tt == Get(data, "title")
        title == escapeHtml(IF Truthy(tt) THEN tt ELSE Str(<<"Notification">>))
        message == escapeHtml(Get(data, "message"))
        time == toLocaleString(Get(data, "timestamp"))
    IN IF title.ok /\ message.ok
       THEN Value(Trim(NotificationTemplate(emoji, title.s, message.s, time)))
       ELSE Thrown

formatNotification(data) ==
  IF ~Derefs(data) THEN Thrown
  ELSE
    LET priority == Get(data, "priority")
        emoji == IF priority = Str(<<"high">>) THEN RedMarker
                 ELSE IF priority = Str(<<"low">>) THEN WhiteMarker
                 ELSE BlueMarker
        tt == Get(data, "title")
        title == escapeHtml(IF Truthy(tt) THEN tt ELSE Str(<<"Notification">>))
        message == escapeHtml(Get(data, "message"))
        time == toLocaleString(Get(data, "timestamp"))
    IN IF title.ok /\ message.ok
       THEN Value(Trim(NotificationTemplate(emoji, title.s, message.s, time)))
       ELSE Thrown

\* ------------------------------------------------ request body and HMAC

\* The decoded request body: an envelope object, or undefined.
Envelope(event, data) == [t |-> "object", event |-> event, data |-> data]
NoBody == Undef
EmptyObject == Envelope(Undef, Undef)

\* The bytes of a request body.  kind "json": the text of the object env,
\* written compactly (no white space between tokens, as JSON.stringify writes
\* it) or with white space between its tokens.  kind "malformed": text that
\* is no JSON.  kind "none": no JSON body (no body, or another content type).
Json(lex, env) == [kind |-> "json", lex |-> lex, env |-> env]
Malformed == [kind |-> "malformed"]
NoJson == [kind |-> "none"]

\* JSON.parse of a body of kind "json": the white space is gone.
JSONparse(raw) == raw.env

\* JSON.stringify of a decoded object: its members in their order, no white
\* space.
JSONstringify(obj) == Json("compact", obj)

\* HMAC-SHA256 as lowercase hex: 64 characters that name the key and the
\* message (no two keys or messages share a digest).
Hmac(key, bytes) == [key |-> key, msg |-> bytes]
DigestLength == 64

\* The X-Knobase-Signature header: absent, the empty string, a digest in
\* lowercase hex, or a text of `len` other characters.
NoSignature == Undef
SignatureHex(dig) == [t |-> "string", len |-> DigestLength, dig |-> dig]
SignatureText(len) == [t |-> "string", len |-> len]

\* crypto.timingSafeEqual on the two texts: throws a RangeError when their
\* byte lengths differ.
timingSafeEqual(signature, expected) ==
  IF signature.len # DigestLength THEN "throw"
  ELSE IF signature.dig = expected THEN "true" ELSE "false"

\* verifySignature skipping the check only when both are missing.
verifySignature_BothMissing(payload, signature, secret) ==
  IF ~(signature.t = "string" /\ signature.len > 0) /\ ~Truthy(secret) THEN "true"
  ELSE IF ~(signature.t = "string" /\ signature.len = DigestLength) THEN "false"
  ELSE IF payload.t = "undefined" THEN "throw"
  ELSE IF ~Truthy(secret) THEN "false"
  ELSE IF signature.dig = Hmac(secret.s, JSONstringify(payload)) THEN "true"
  ELSE "false"

\* verifySignature(payload, signature, secret): "true", "false", or "throw"
\* when hmac.update is handed JSON.stringify(undefined), which is undefined.
verifySignature(payload, signature, secret) ==
  IF ~(signature.t = "string" /\ signature.len > 0) \/ ~Truthy(secret) THEN "true"
  ELSE IF payload.t = "undefined" THEN "throw"
  ELSE LET expected == Hmac(secret.s, JSONstringify(payload))
           equal == timingSafeEqual(signature, expected)
       IN IF equal = "throw" THEN "false" ELSE equal

\* ---------------------------------------------------------------- state

VARIABLES
  config,     \* the object loadConfig built from .env, read by every handler
  pc,         \* per slot: where the invocation of the handler stands
  request,    \* per slot: the request on the wire (signature header, body bytes)
  body,       \* per slot: req.body as express.json() left it
  formatted,  \* per slot: the messages the formatters returned, in order
  calls,      \* per slot: the fetch calls issued to the Telegram API, in order
  delivery,   \* per slot: how sendTelegram ended
  response,   \* per slot: the responses written, in order
  health      \* the last GET /health: the request and its answer

vars == <<config, pc, request, body, formatted, calls, delivery, response, health>>

\* ---------------------------------------------------------------- inputs

AgentId == Str(<<"knobase_agent_1">>)
Secret == <<"k1">>
OtherSecret == <<"k2">>

\* What loadConfig can leave for a key: no line, `KEY=` (the empty string),
\* or a value.
Configs ==
  [AGENT_ID : {AgentId},
   KNOBASE_WEBHOOK_SECRET : {Undef, Str(<<>>), Str(Secret)},
   TELEGRAM_BOT_TOKEN : {Undef, Str(<<"token">>)},
   TELEGRAM_CHAT_ID : {Undef, Str(<<"chat">>)}]

Mention == Str(<<"mention">>)
Notification == Str(<<"notification">>)
System == Str(<<"system">>)
Events == {Mention, Notification, System, Str(<<"unknown_future_kind">>), Undef}

\* {user:"a", channel:"a", timestamp, message:"<a>"}, without and with the
\* optional context and url.
PlainMention ==
  Obj([user |-> Str(<<"a">>), channel |-> Str(<<"a">>),
       timestamp |-> Str(IsoTimestamp), message |-> Str(<<"<", "a", ">">>)])
FullMention ==
  Obj([user |-> Str(<<"a">>), channel |-> Str(<<"a">>),
       timestamp |-> Str(IsoTimestamp), message |-> Str(<<"<", "a", ">">>),
       context |-> Str(<<"a">>), url |-> Str(<<"a">>)])
\* {title:"a", message:"a&", priority:"high", timestamp}
PlainNotification ==
  Obj([title |-> Str(<<"a">>), message |-> Str(<<"a", "&">>),
       priority |-> Str(<<"high">>), timestamp |-> Str(IsoTimestamp)])
\* {user: 7}: a field of the wrong type.
NumberUser == Obj([user |-> Num(<<"7">>)])
\* {}
NoFields == Obj(<<>>)

WellFormed == {PlainMention, FullMention, PlainNotification}
DataShapes ==
  WellFormed \cup {Undef, Null, Str(<<"a">>), NoFields, NumberUser}

Bodies ==
  {Json(lex, Envelope(e, d)) : lex \in {"compact", "spaced"},
                               e \in Events, d \in DataShapes}
  \cup {Malformed, NoJson}

\* What a sender can put in the signature header of body `raw`: nothing, the
\* empty string, a text that is too short, or a digest under either key of
\* the bytes sent, of their compact re-serialization, or of other bytes.
SignaturesFor(raw) ==
  {NoSignature, SignatureText(0), SignatureText(3)} \cup
  {SignatureHex(Hmac(k, m)) :
     k \in {Secret, OtherSecret},
     m \in {raw, Malformed} \cup
           (IF raw.kind = "json" THEN {JSONstringify(JSONparse(raw))} ELSE {})}

Requests ==
  UNION {{[sig |-> sg, raw |-> raw] : sg \in SignaturesFor(raw)} : raw \in Bodies}

NoRequest == [sig |-> NoSignature, raw |-> NoJson]

\* Inputs of the formatters: a mention without and with each of context and
\* url, a notification of each priority, and each of these with one member
\* replaced by any string of up to MaxLen characters or by a number.
ContextMention ==
  Obj([user |-> Str(<<"a">>), channel |-> Str(<<"a">>),
       timestamp |-> Str(IsoTimestamp), message |-> Str(<<"<", "a", ">">>),
       context |-> Str(<<"a">>)])
LinkMention ==
  Obj([user |-> Str(<<"a">>), channel |-> Str(<<"a">>),
       timestamp |-> Str(IsoTimestamp), message |-> Str(<<"<", "a", ">">>),
       url |-> Str(<<"a">>)])
BaseMentions == {PlainMention, ContextMention, LinkMention, FullMention}

\* The object d with member k set to v.
With(d, k, v) ==
  Obj([x \in DOMAIN d.f \cup {k} |-> IF x = k THEN v ELSE d.f[x]])

BaseNotifications ==
  {PlainNotification,
   With(PlainNotification, "priority", Str(<<"low">>)),
   With(PlainNotification, "priority", Str(<<"normal">>)),
   Obj([message |-> Str(<<"a", "&">>), timestamp |-> Str(IsoTimestamp)])}

FieldValues == {Str(s) : s \in Strings} \cup {Num(<<"7">>)}

MentionInputs ==
  BaseMentions \cup
  {With(d, k, v) : d \in BaseMentions,
                   k \in {"user", "channel", "message", "context", "url"},
                   v \in FieldValues}
NotificationInputs ==
  BaseNotifications \cup
  {With(d, k, v) : d \in BaseNotifications, k \in {"title", "message"}, v \in FieldValues}

\* The same with the timestamp, and for a notification the priority,
\* replaced.
TimestampInputs(base) == {With(d, "timestamp", v) : d \in base, v \in FieldValues}
PriorityInputs == {With(d, "priority", v) : d \in BaseNotifications, v \in FieldValues}

FormatEnvelopes ==
  {Envelope(Mention, d) : d \in MentionInputs \cup TimestampInputs(BaseMentions)} \cup
  {Envelope(Notification, d) :
     d \in NotificationInputs \cup TimestampInputs(BaseNotifications) \cup PriorityInputs}

\* ------------------------------------------------------------ operations

\* No GET /health yet.
NoHealth == [status |-> "none"]

\* After loadConfig and the AGENT_ID check of startServer: the server
\* listens and no request has arrived.
Init ==
  /\ config \in Configs
  /\ pc = [i \in Slots |-> "idle"]
  /\ request = [i \in Slots |-> NoRequest]
  /\ body = [i \in Slots |-> NoBody]
  /\ formatted = [i \in Slots |-> <<>>]
  /\ calls = [i \in Slots |-> <<>>]
  /\ delivery = [i \in Slots |-> "none"]
  /\ response = [i \in Slots |-> <<>>]
  /\ health = NoHealth

\* res.status(status).json(...), or express's own error response: the
\* invocation ends.
Respond(i, status, text) ==
  /\ response' = [response EXCEPT ![i] = Append(@, [status |-> status, body |-> text])]
  /\ pc' = [pc EXCEPT ![i] = "responded"]

Respond200(i) == Respond(i, 200, "{success:true}")
Respond401(i) == Respond(i, 401, "{error:Invalid signature}")
Respond500(i) == Respond(i, 500, "{error:Internal error}")

\* A handler that reads .env again for each request.
Receive_Reloads(i, r) ==
  /\ pc[i] = "idle"
  /\ config' \in Configs
  /\ request' = [request EXCEPT ![i] = r]
  /\ pc' = [pc EXCEPT ![i] = "decoding"]
  /\ UNCHANGED <<health, body, formatted, calls, delivery, response>>

\* A request r arrives on a free slot.
Receive(i, r) ==
  /\ pc[i] = "idle"
  /\ request' = [request EXCEPT ![i] = r]
  /\ pc' = [pc EXCEPT ![i] = "decoding"]
  /\ UNCHANGED <<health, config, body, formatted, calls, delivery, response>>

\* The answered request is over: nothing of it is kept, the slot is free.
Close(i) ==
  /\ pc[i] = "responded"
  /\ pc' = [pc EXCEPT ![i] = "idle"]
  /\ request' = [request EXCEPT ![i] = NoRequest]
  /\ body' = [body EXCEPT ![i] = NoBody]
  /\ formatted' = [formatted EXCEPT ![i] = <<>>]
  /\ calls' = [calls EXCEPT ![i] = <<>>]
  /\ delivery' = [delivery EXCEPT ![i] = "none"]
  /\ response' = [response EXCEPT ![i] = <<>>]
  /\ UNCHANGED <<health, config>>

\* app.use(express.json()): a body that is no JSON is answered 400 by
\* express and the handler is not called; without a JSON body req.body is {}
\* (express 4) or undefined (express 5).
Decode(i) ==
  /\ pc[i] = "decoding"
  /\ \/ /\ request[i].raw.kind = "malformed"
        /\ Respond(i, 400, "Bad Request")
        /\ UNCHANGED body
     \/ /\ request[i].raw.kind = "json"
        /\ body' = [body EXCEPT ![i] = JSONparse(request[i].raw)]
        /\ pc' = [pc EXCEPT ![i] = "verifying"]
        /\ UNCHANGED response
     \/ /\ request[i].raw.kind = "none"
        /\ \E b \in {EmptyObject, NoBody} : body' = [body EXCEPT ![i] = b]
        /\ pc' = [pc EXCEPT ![i] = "verifying"]
        /\ UNCHANGED response
  /\ UNCHANGED <<health, config, request, formatted, calls, delivery>>

\* The handler up to the signature check.
Verify(i) ==
  /\ pc[i] = "verifying"
  /\ LET v == verifySignature(body[i], request[i].sig, config.KNOBASE_WEBHOOK_SECRET)
     IN \/ /\ v = "true"
           /\ pc' = [pc EXCEPT ![i] = "classifying"]
           /\ UNCHANGED response
        \/ /\ v = "false"
           /\ Respond401(i)
        \/ /\ v = "throw"
           /\ Respond500(i)
  /\ UNCHANGED <<health, config, request, body, formatted, calls, delivery>>

\* The switch with its default taken for a mention.
KindOf_DefaultIsMention(event) ==
  IF event = Notification THEN "Notification"
  ELSE IF event = System THEN "System"
  ELSE "Mention"

\* switch (event): the case taken.
KindOf(event) ==
  IF event = Mention THEN "Mention"
  ELSE IF event = Notification THEN "Notification"
  ELSE IF event = System THEN "System"
  ELSE "Unknown"

\* const { event, data } = req.body, and the switch up to the formatter
\* call.
Classify(i) ==
  /\ pc[i] = "classifying"
  /\ \/ /\ body[i].t = "undefined"
        /\ Respond500(i)
     \/ /\ body[i].t # "undefined"
        /\ KindOf(body[i].event) \in {"Mention", "Notification"}
        /\ pc' = [pc EXCEPT ![i] = "formatting"]
        /\ UNCHANGED response
     \/ /\ body[i].t # "undefined"
        /\ KindOf(body[i].event) = "System"
        /\ IF Derefs(body[i].data) THEN Respond200(i) ELSE Respond500(i)
     \/ /\ body[i].t # "undefined"
        /\ KindOf(body[i].event) = "Unknown"
        /\ Respond200(i)
  /\ UNCHANGED <<health, config, request, body, formatted, calls, delivery>>

\* formatMention(data) or formatNotification(data), the argument of
\* sendTelegram.
Format(i) ==
  /\ pc[i] = "formatting"
  /\ LET m == IF KindOf(body[i].event) = "Mention"
              THEN formatMention(body[i].data)
              ELSE formatNotification(body[i].data)
     IN \/ /\ m.ok
           /\ formatted' = [formatted EXCEPT ![i] = Append(@, m.s)]
           /\ pc' = [pc EXCEPT ![i] = "delivering"]
           /\ UNCHANGED response
        \/ /\ ~m.ok
           /\ Respond500(i)
           /\ UNCHANGED formatted
  /\ UNCHANGED <<health, config, request, body, calls, delivery>>

\* The guard of sendTelegram returning only when both credentials are unset.
TelegramConfigured_Either(cfg) ==
  Truthy(cfg.TELEGRAM_BOT_TOKEN) \/ Truthy(cfg.TELEGRAM_CHAT_ID)

\* The guard of sendTelegram: both credentials are set.
TelegramConfigured(cfg) ==
  Truthy(cfg.TELEGRAM_BOT_TOKEN) /\ Truthy(cfg.TELEGRAM_CHAT_ID)

\* sendTelegram sending what a variable shared by the invocations holds:
\* the message of any invocation that formatted one.
Deliver_SharedMessage(i) ==
  /\ pc[i] = "delivering"
  /\ \E j \in {k \in Slots : formatted[k] # <<>>} :
       calls' = [calls EXCEPT ![i] =
         Append(@, [token |-> config.TELEGRAM_BOT_TOKEN,
                    chat_id |-> config.TELEGRAM_CHAT_ID,
                    text |-> formatted[j][Len(formatted[j])],
                    parse_mode |-> "HTML"])]
  /\ pc' = [pc EXCEPT ![i] = "awaiting"]
  /\ UNCHANGED <<health, config, request, body, formatted, delivery, response>>

\* The handler calling sendTelegram without await: the call is issued and
\* the answer written at once.
Deliver_NoAwait(i) ==
  /\ pc[i] = "delivering"
  /\ IF TelegramConfigured(config)
     THEN calls' = [calls EXCEPT ![i] =
            Append(@, [token |-> config.TELEGRAM_BOT_TOKEN,
                       chat_id |-> config.TELEGRAM_CHAT_ID,
                       text |-> formatted[i][Len(formatted[i])],
                       parse_mode |-> "HTML"])]
     ELSE UNCHANGED calls
  /\ Respond200(i)
  /\ UNCHANGED <<health, config, request, body, formatted, delivery>>

\* sendTelegram(message) up to its await: returns at once without
\* credentials, else issues the fetch.
Deliver(i) ==
  /\ pc[i] = "delivering"
  /\ \/ /\ ~TelegramConfigured(config)
        /\ delivery' = [delivery EXCEPT ![i] = "skipped"]
        /\ Respond200(i)
        /\ UNCHANGED calls
     \/ /\ TelegramConfigured(config)
        /\ calls' = [calls EXCEPT ![i] =
             Append(@, [token |-> config.TELEGRAM_BOT_TOKEN,
                        chat_id |-> config.TELEGRAM_CHAT_ID,
                        text |-> formatted[i][Len(formatted[i])],
                        parse_mode |-> "HTML"])]
        /\ pc' = [pc EXCEPT ![i] = "awaiting"]
        /\ UNCHANGED <<delivery, response>>
  /\ UNCHANGED <<health, config, request, body, formatted>>

\* How fetch can settle: a response with ok, a response without, a
\* rejection.
FetchOutcomes == {"ok", "not ok", "network error"}

\* sendTelegram without its try/catch: a rejected fetch reaches the handler.
sendTelegramSettles_NoCatch(outcome) ==
  IF outcome = "network error" THEN "throws" ELSE "returns"

\* What sendTelegram does with the settled fetch: it logs and returns; the
\* catch swallows a rejection.
sendTelegramSettles(outcome) == "returns"

\* sendTelegram trying again after a failed call.
FetchSettles_Retry(i) ==
  /\ pc[i] = "awaiting"
  /\ \E o \in FetchOutcomes :
       /\ delivery' = [delivery EXCEPT ![i] = o]
       /\ IF o = "ok"
          THEN Respond200(i) /\ UNCHANGED calls
          ELSE /\ calls' = [calls EXCEPT ![i] = Append(@, @[Len(@)])]
               /\ UNCHANGED <<pc, response>>
  /\ UNCHANGED <<health, config, request, body, formatted>>

\* The fetch settles, sendTelegram returns, and the handler answers.
FetchSettles(i) ==
  /\ pc[i] = "awaiting"
  /\ \E o \in FetchOutcomes :
       /\ delivery' = [delivery EXCEPT ![i] = o]
       /\ IF sendTelegramSettles(o) = "returns" THEN Respond200(i) ELSE Respond500(i)
  /\ UNCHANGED <<health, config, request, body, formatted, calls>>

\* The GET /health requests tried: with and without a signature header, and
\* one that carries a JSON body that does not parse.
HealthRequests ==
  {[sig |-> h, raw |-> NoJson] : h \in {NoSignature, SignatureText(3)}}
    \cup {[sig |-> NoSignature, raw |-> Malformed]}

\* app.use(express.json()) runs ahead of every route, so a body that does not
\* parse is answered 400 before the route is reached; otherwise
\* app.get('/health') answers with the agent id and the time (the clock's
\* reading is written by name) and reads nothing of the request.
Health(r) ==
  /\ health' = IF r.raw = Malformed
               THEN [req |-> r, status |-> 400, body |-> [status |-> "none"]]
               ELSE [req |-> r, status |-> 200,
                     body |-> [status |-> "ok", agent |-> config.AGENT_ID,
                               timestamp |-> "(now)"]]
  /\ UNCHANGED <<config, pc, request, body, formatted, calls, delivery, response>>

\* One connection: the sender awaits each answer before its next request.
Next ==
  \E i \in {1} :
    \/ \E r \in Requests : Receive(i, r)
    \/ Decode(i)
    \/ Verify(i)
    \/ Classify(i)
    \/ Format(i)
    \/ Deliver(i)
    \/ FetchSettles(i)
    \/ Close(i)
    \/ \E r \in HealthRequests : Health(r)

Spec == Init /\ [][Next]_vars

\* The handler about to format an envelope of FormatEnvelopes, received
\* unsigned with no secret and no transport configured.
InitFormat ==
  /\ config = [AGENT_ID |-> AgentId, KNOBASE_WEBHOOK_SECRET |-> Undef,
               TELEGRAM_BOT_TOKEN |-> Undef, TELEGRAM_CHAT_ID |-> Undef]
  /\ \E e \in FormatEnvelopes :
       /\ request = [i \in Slots |-> IF i = 1
                                     THEN [sig |-> NoSignature, raw |-> JSONstringify(e)]
                                     ELSE NoRequest]
       /\ body = [i \in Slots |-> IF i = 1 THEN e ELSE NoBody]
  /\ pc = [i \in Slots |-> IF i = 1 THEN "formatting" ELSE "idle"]
  /\ formatted = [i \in Slots |-> <<>>]
  /\ calls = [i \in Slots |-> <<>>]
  /\ delivery = [i \in Slots |-> "none"]
  /\ response = [i \in Slots |-> <<>>]
  /\ health = NoHealth

NextFormat == \E i \in {1} : Format(i) \/ Deliver(i)

SpecFormat == InitFormat /\ [][NextFormat]_vars

\* Requests in flight together: every slot takes requests, under a
\* configuration with the transport set, with and without a secret. The
\* requests are one for each way the handler ends: a mention and a
\* notification that are delivered, a signature that is no digest, a mention
\* whose data is null, a system event, and a body that is no JSON.
ConcConfigs ==
  {c \in Configs : /\ TelegramConfigured(c)
                   /\ c.KNOBASE_WEBHOOK_SECRET \in {Undef, Str(Secret)}}

ConcRequests ==
  {[sig |-> NoSignature, raw |-> JSONstringify(Envelope(Mention, PlainMention))],
   [sig |-> NoSignature, raw |-> JSONstringify(Envelope(Notification, PlainNotification))],
   [sig |-> SignatureText(3), raw |-> JSONstringify(Envelope(Mention, PlainMention))],
   [sig |-> NoSignature, raw |-> JSONstringify(Envelope(Mention, Null))],
   [sig |-> NoSignature, raw |-> JSONstringify(Envelope(System, PlainMention))],
   [sig |-> NoSignature, raw |-> Malformed]}

InitConc == Init /\ config \in ConcConfigs

\* The event loop runs one step of one invocation at a time, in any order.
NextConc ==
  \E i \in Slots :
    \/ \E r \in ConcRequests : Receive(i, r)
    \/ Decode(i)
    \/ Verify(i)
    \/ Classify(i)
    \/ Format(i)
    \/ Deliver(i)
    \/ FetchSettles(i)
    \/ Close(i)

SpecConc == InitConc /\ [][NextConc]_vars

\* A step of the invocation of slot i: express calls the middleware and the
\* handler for a request it received, the handler runs to its next await,
\* and a fetch that completes resumes it.
HandlerStep(i) ==
  Decode(i) \/ Verify(i) \/ Classify(i) \/ Format(i) \/ Deliver(i) \/ FetchSettles(i)

\* {user:"a", timestamp, message:"<"} and {message:"&", timestamp}
ShortMention ==
  Obj([user |-> Str(<<"a">>), timestamp |-> Str(IsoTimestamp),
       message |-> Str(<<"<">>)])
ShortNotification ==
  Obj([message |-> Str(<<"&">>), timestamp |-> Str(IsoTimestamp)])

\* A request for each way through the middleware and the handler.
LiveRequests ==
  {[sig |-> NoSignature, raw |-> JSONstringify(Envelope(Mention, ShortMention))],
   [sig |-> NoSignature, raw |-> JSONstringify(Envelope(Notification, ShortNotification))],
   [sig |-> SignatureText(3), raw |-> JSONstringify(Envelope(Mention, ShortMention))],
   [sig |-> NoSignature, raw |-> JSONstringify(Envelope(Mention, Null))],
   [sig |-> NoSignature, raw |-> JSONstringify(Envelope(System, ShortMention))],
   [sig |-> NoSignature, raw |-> JSONstringify(Envelope(Str(<<"unknown_future_kind">>), Undef))],
   [sig |-> NoSignature, raw |-> Malformed],
   [sig |-> NoSignature, raw |-> NoJson]}

\* One request at a time, of LiveRequests, under every configuration.
NextLive ==
  \E i \in {1} :
    \/ \E r \in LiveRequests : Receive(i, r)
    \/ Decode(i)
    \/ Verify(i)
    \/ Classify(i)
    \/ Format(i)
    \/ Deliver(i)
    \/ FetchSettles(i)
    \/ Close(i)

\* Every invocation is run on and every fetch settles.
SpecLive == Init /\ [][NextLive]_vars /\ WF_vars(HandlerStep(1))

\* ---------------------------------------------------------------- claims

SecretOf == config.KNOBASE_WEBHOOK_SECRET

\* The handler ran for the request of slot i and its signature check
\* returned true.
PassedVerification(i) ==
  /\ pc[i] \in {"classifying", "formatting", "delivering", "awaiting", "responded"}
  /\ request[i].raw.kind # "malformed"
  /\ verifySignature(body[i], request[i].sig, SecretOf) = "true"

Answered(i, status, text) ==
  /\ pc[i] = "responded"
  /\ response[i] = <<[status |-> status, body |-> text]>>

Answered200(i) == Answered(i, 200, "{success:true}")
Answered401(i) == Answered(i, 401, "{error:Invalid signature}")
Answered500(i) == Answered(i, 500, "{error:Internal error}")

\* The signature header of slot i holds text (it is present and not empty).
HasSignature(i) == request[i].sig.t = "string" /\ request[i].sig.len > 0

\* The header is the lowercase-hex HMAC-SHA256 of the bytes received, under
\* the configured secret.
SignsRawBody(i) ==
  request[i].sig = SignatureHex(Hmac(SecretOf.s, request[i].raw))

\* C1: with a secret configured and a signature header present, a request
\* whose header is not the hex HMAC-SHA256 of its body under the secret is
\* answered 401 {error:"Invalid signature"}, and nothing of it is classified,
\* formatted or sent.  Stated here for the bodies that are well-formed JSON
\* objects only.
C1_BadSignatureIs401 ==
  \A i \in Slots :
    (/\ Truthy(SecretOf)
     /\ HasSignature(i)
     /\ request[i].raw.kind = "json"
     /\ ~SignsRawBody(i))
    => /\ pc[i] \notin {"classifying", "formatting", "delivering", "awaiting"}
       /\ formatted[i] = <<>>
       /\ calls[i] = <<>>
       /\ pc[i] = "responded" => Answered401(i)

\* C2: a request whose signature header is the hex HMAC-SHA256 of the raw
\* body bytes under the configured secret passes verification and is not
\* answered 401, whatever the white space of the body.
C2_RawBodySignaturePasses ==
  \A i \in Slots :
    (/\ Truthy(SecretOf)
     /\ request[i].raw.kind = "json"
     /\ SignsRawBody(i)
     /\ pc[i] = "responded")
    => ~Answered401(i)

\* The request of slot i carries no signature header.
NoSignatureHeader(i) == request[i].sig.t = "undefined"

\* C3: if the webhook secret is not configured or the request carries no
\* signature header, the signature check returns true whatever the body and
\* the other value are: the handler goes from the check to classification,
\* and the request is never answered 401.
C3_VerificationSkipped ==
  [][\A i \in Slots :
       (pc[i] # "idle" /\ (~Truthy(SecretOf) \/ NoSignatureHeader(i)))
       => /\ (pc[i] = "verifying" /\ pc'[i] # "verifying") => pc'[i] = "classifying"
          /\ \A n \in 1..Len(response'[i]) : response'[i][n].status # 401]_vars

\* C3 witness: a secret is configured, the request has no signature header,
\* and the handler has passed the check.
C3_Witness ==
  /\ Truthy(SecretOf)
  /\ NoSignatureHeader(1)
  /\ pc[1] = "classifying"

\* The data of a Mention or Notification as the data model gives it.
IsString(v) == v.t = "string"
Optional(data, key) == Get(data, key).t \in {"string", "undefined"}
MentionShape(data) ==
  /\ data.t = "object"
  /\ \A k \in {"user", "timestamp", "message"} : IsString(Get(data, k))
  /\ \A k \in {"channel", "context", "url"} : Optional(data, k)
NotificationShape(data) ==
  /\ data.t = "object"
  /\ \A k \in {"message", "timestamp"} : IsString(Get(data, k))
  /\ Get(data, "priority") \in {Str(<<"high">>), Str(<<"normal">>), Str(<<"low">>)}
  /\ Optional(data, "title")

WellFormedEvent(b) ==
  /\ b.t = "object"
  /\ \/ b.event = Mention /\ MentionShape(b.data)
     \/ b.event = Notification /\ NotificationShape(b.data)

\* C4: a request that passes verification with event 'mention' or
\* 'notification' and well-formed data is answered 200 {success:true} and
\* nothing else, however the delivery ended: sent, skipped for missing
\* credentials, refused by the messaging API, or a network error.
C4_DeliveryNeverFailsRequest ==
  \A i \in Slots :
    (PassedVerification(i) /\ WellFormedEvent(body[i]))
    => /\ response[i] # <<>> => Answered200(i)
       /\ delivery[i] # "none" => Answered200(i)

\* C4 witness: the fetch was rejected and the request is answered 200.
C4_Witness ==
  /\ WellFormedEvent(body[1])
  /\ delivery[1] = "network error"
  /\ Answered200(1)

\* C5: every fault while decoding, classifying or formatting ends the
\* request with 500 {error:"Internal error"}: a body that is no JSON, a
\* missing envelope, and a recognised event whose data is absent or of the
\* wrong shape.
C5_FaultsAre500 ==
  \A i \in Slots :
    (/\ pc[i] = "responded"
     /\ \/ request[i].raw.kind = "malformed"
        \/ PassedVerification(i) /\ body[i].t = "undefined"
        \/ /\ PassedVerification(i)
           /\ body[i].t = "object"
           /\ \/ body[i].event = Mention /\ ~MentionShape(body[i].data)
              \/ body[i].event = Notification /\ ~NotificationShape(body[i].data)
              \/ body[i].event = System /\ body[i].data.t # "object")
    => Answered500(i)

\* C6: a request that passes verification and whose event is none of
\* 'mention', 'notification' and 'system' (another string, or no event) is
\* never formatted and never sent, and is answered 200 {success:true},
\* whatever its data.
C6_UnknownEventAcknowledged ==
  \A i \in Slots :
    (/\ PassedVerification(i)
     /\ body[i].t = "object"
     /\ body[i].event \notin {Mention, Notification, System})
    => /\ pc[i] \in {"classifying", "responded"}
       /\ formatted[i] = <<>>
       /\ calls[i] = <<>>
       /\ delivery[i] = "none"
       /\ pc[i] = "responded" => Answered200(i)

\* C6 witness: an event of a kind not known, with data of a wrong shape, is
\* answered 200 with the transport configured.
C6_Witness ==
  /\ TelegramConfigured(config)
  /\ body[1].t = "object"
  /\ body[1].event = Str(<<"unknown_future_kind">>)
  /\ body[1].data = NumberUser
  /\ Answered200(1)

\* C7: an accepted envelope (one answered 200) has exactly one formatted
\* message when its event is a mention or a notification and none when it is
\* a system or unknown event; and no request has more than one formatted
\* message or more than one call to the messaging API, also after a failed
\* call.
C7_OneMessageOneCall ==
  \A i \in Slots :
    /\ Len(formatted[i]) <= 1
    /\ Len(calls[i]) <= 1
    /\ Answered200(i) =>
         Len(formatted[i]) = IF body[i].event \in {Mention, Notification} THEN 1 ELSE 0

\* C7 witness: a mention whose one call the messaging API refused.
C7_Witness ==
  /\ Answered200(1)
  /\ body[1].event = Mention
  /\ delivery[1] = "not ok"
  /\ Len(formatted[1]) = 1
  /\ Len(calls[1]) = 1

\* C8: without the bot token or without the chat id, sendTelegram issues no
\* call and does not raise: the request that reached it is answered 200.
C8_NoCredentialsNoCall ==
  \A i \in Slots :
    (~Truthy(config.TELEGRAM_BOT_TOKEN) \/ ~Truthy(config.TELEGRAM_CHAT_ID))
    => /\ calls[i] = <<>>
       /\ pc[i] # "awaiting"
       /\ delivery[i] \in {"none", "skipped"}
       /\ (formatted[i] # <<>> /\ pc[i] = "responded")
          => (delivery[i] = "skipped" /\ Answered200(i))

\* C8 witness: the token is set, the chat id is not, and a formatted
\* message was skipped.
C8_Witness ==
  /\ Truthy(config.TELEGRAM_BOT_TOKEN)
  /\ ~Truthy(config.TELEGRAM_CHAT_ID)
  /\ formatted[1] # <<>>
  /\ delivery[1] = "skipped"
  /\ Answered200(1)

\* ---- formatter claims, under SpecFormat

\* The escaping the claim describes: each character on its own.
EscapedChar(c) ==
  CASE c = "&" -> <<"&", "a", "m", "p", ";">>
    [] c = "<" -> <<"&", "l", "t", ";">>
    [] c = ">" -> <<"&", "g", "t", ";">>
    [] OTHER -> <<c>>

RECURSIVE Escaped(_)
Escaped(s) == IF s = <<>> THEN <<>> ELSE EscapedChar(Head(s)) \o Escaped(Tail(s))

\* What precedes each text field in the two templates.
FieldLabel(kind, key) ==
  IF kind = "Mention"
  THEN CASE key = "user" -> <<"<b>From:</b>", " ">>
         [] key = "channel" -> <<"<b>Channel:</b>", " ">>
         [] key = "message" -> <<"<b>Message:</b>", "\n">>
         [] key = "context" -> <<"<b>Context:</b>", " ">>
  ELSE CASE key = "title" -> <<" ", "<b>">>
         [] key = "message" -> <<"</b>", "\n", "\n">>

TextKeys(kind) ==
  IF kind = "Mention" THEN {"user", "channel", "message", "context"}
  ELSE {"title", "message"}

\* Text e stands whole in message m right after `label`, and the line (or the
\* <b> element) ends after it.
Embedded(m, label, e) ==
  LET w == label \o e
  IN \E p \in 0..Len(m) :
       /\ p + Len(w) <= Len(m)
       /\ SubSeq(m, p + 1, p + Len(w)) = w
       /\ p + Len(w) < Len(m) => m[p + Len(w) + 1] \in {"\n", "</b>"}

\* Message m ends with `label` and e, less the white space at their end.
EmbeddedAtEnd(m, label, e) ==
  LET w == TrimEnd(label \o e)
  IN Len(w) <= Len(m) /\ SubSeq(m, Len(m) - Len(w) + 1, Len(m)) = w

\* The handler of slot i has formatted a message.
HasFormatted(i) == pc[i] # "idle" /\ formatted[i] # <<>>

\* The text fields of the formatted envelope of slot i that hold text.
GivenTextKeys(i) ==
  {k \in TextKeys(KindOf(body[i].event)) :
     LET v == Get(body[i].data, k) IN v.t = "string" /\ v.s # <<>>}

\* C9 as claimed: in every formatted message each text field (user, channel,
\* message, context, title) stands with '&', '<' and '>' replaced by
\* '&amp;', '&lt;' and '&gt;', each character on its own, and every other
\* character unchanged.
C9_FieldsEscapedUnchanged ==
  \A i \in Slots :
    HasFormatted(i) =>
      \A k \in GivenTextKeys(i) :
        Embedded(formatted[i][1], FieldLabel(KindOf(body[i].event), k),
                 Escaped(Get(body[i].data, k).s))

\* C9 as amended: the same, except that the white space at the very end of
\* the message is trimmed, so a field that ends the message stands without
\* its trailing white space.
C9_FieldsEscaped ==
  \A i \in Slots :
    HasFormatted(i) =>
      \A k \in GivenTextKeys(i) :
        LET m == formatted[i][1]
            label == FieldLabel(KindOf(body[i].event), k)
            e == Escaped(Get(body[i].data, k).s)
        IN Embedded(m, label, e) \/ EmbeddedAtEnd(m, label, e)

\* C9 witness: the message <& of a mention stands as &lt;&amp;.
C9_Witness ==
  /\ HasFormatted(1)
  /\ body[1].event = Mention
  /\ Get(body[1].data, "message") = Str(<<"<", "&">>)
  /\ Embedded(formatted[1][1], <<"<b>Message:</b>", "\n">>,
              <<"&", "l", "t", ";", "&", "a", "m", "p", ";">>)

Contains(m, token) == \E p \in 1..Len(m) : m[p] = token

\* Two or more empty lines in a row.
BlankRun(m) ==
  \E p \in 1..Len(m) : p + 2 <= Len(m) /\ m[p] = "\n" /\ m[p + 1] = "\n" /\ m[p + 2] = "\n"

\* C10: for a mention with context present or absent and url present or
\* absent, the message has the 'Context:' label iff context is present, the
\* link iff url is present, and no run of two or more empty lines.
C10_OptionalFieldsLeaveNoArtifact ==
  \A i \in Slots :
    (HasFormatted(i) /\ body[i].event = Mention /\ body[i].data \in BaseMentions)
    => LET m == formatted[i][1]
           d == body[i].data
       IN /\ Contains(m, "<b>Context:</b>") <=> "context" \in DOMAIN d.f
          /\ Contains(m, "<a href=\"") <=> "url" \in DOMAIN d.f
          /\ ~BlankRun(m)

\* Text w stands in message m.
ContainsSeq(m, w) ==
  \E p \in 0..Len(m) : p + Len(w) <= Len(m) /\ SubSeq(m, p + 1, p + Len(w)) = w

\* What precedes the time in the two templates.
TimeLabel(kind) ==
  IF kind = "Mention" THEN <<"<b>Time:</b>", " ">> ELSE <<"<i>">>

\* The envelope of slot i is a mention or notification of the shape of the
\* data model whose timestamp Date cannot parse.
UnparsableTimestamp(i) ==
  /\ pc[i] \notin {"idle", "decoding", "verifying", "classifying", "formatting"}
  /\ body[i].t = "object"
  /\ \/ body[i].event = Mention /\ MentionShape(body[i].data)
     \/ body[i].event = Notification /\ IsString(Get(body[i].data, "message"))
                                     /\ Optional(body[i].data, "title")
  /\ LET ts == Get(body[i].data, "timestamp")
     IN ts.t = "string" /\ ts.s # <<>> /\ toLocaleString(ts) = InvalidDate

\* C11: when the timestamp of a mention or notification is no parsable
\* ISO-8601 string, formatting does not fail and the formatted message holds
\* the raw timestamp string, at the place of the time.
C11_UnparsableTimestampShownRaw ==
  \A i \in Slots :
    UnparsableTimestamp(i)
    => /\ formatted[i] # <<>>
       /\ ContainsSeq(formatted[i][1],
                      TimeLabel(KindOf(body[i].event)) \o Get(body[i].data, "timestamp").s)

Markers == {RedMarker, WhiteMarker, BlueMarker}

\* The places of message m that hold a priority marker.
MarkerPlaces(m) == {p \in 1..Len(m) : m[p] \in Markers}

\* The marker the claim gives a priority.
MarkerOf(priority) ==
  IF priority.t = "string" /\ priority.s = <<"high">> THEN RedMarker
  ELSE IF priority.t = "string" /\ priority.s = <<"low">> THEN WhiteMarker
  ELSE BlueMarker

\* C12: a notification message carries exactly one priority marker, red for
\* priority 'high', white for 'low', blue for every other value and for no
\* priority; a mention message carries none.
C12_OnePriorityMarker ==
  \A i \in Slots :
    HasFormatted(i) =>
      LET m == formatted[i][1]
      IN IF body[i].event = Notification
         THEN /\ MarkerPlaces(m) = {1}
              /\ m[1] = MarkerOf(Get(body[i].data, "priority"))
         ELSE MarkerPlaces(m) = {}

\* C12 witness: a notification without priority was given the blue marker.
C12_Witness ==
  /\ HasFormatted(1)
  /\ body[1].event = Notification
  /\ Get(body[1].data, "priority") = Undef
  /\ formatted[1][1][1] = BlueMarker

\* The characters '<' and '>' of message m that are not part of a template
\* piece.
StrayAngles(m) == {p \in 1..Len(m) : m[p] \in {"<", ">"}}

\* C19: in a formatted mention the only '<' and '>' that are not escaped are
\* those of the template: no field of the data, url included, puts one there.
C19_NoUnescapedAngleFromData ==
  \A i \in Slots :
    (HasFormatted(i) /\ body[i].event = Mention) => StrayAngles(formatted[i][1]) = {}

\* ---- health check and configuration, under Spec

\* C13: GET /health always answers 200 with status 'ok' and the configured
\* agent id, with or without a webhook secret and whatever the request
\* carries.
C13_HealthAlwaysOk ==
  health # NoHealth =>
    /\ health.status = 200
    /\ health.body.status = "ok"
    /\ health.body.agent = config.AGENT_ID

\* A health check that reaches its route answers 200 with the agent id,
\* whatever the secret and the signature header.
HealthRouteOk ==
  (health # NoHealth /\ health.req.raw # Malformed) =>
    /\ health.status = 200
    /\ health.body.status = "ok"
    /\ health.body.agent = config.AGENT_ID

\* A health check moves no request in flight, issues no call and leaves the
\* configuration alone.
HealthNoSideEffect ==
  [][health' # health =>
       UNCHANGED <<config, pc, request, body, formatted, calls, delivery, response>>]_vars

\* ---- requests in flight together, under SpecConc

\* What the request of slot i yields when it is the only one: the message
\* the formatter returns for its body, and the response, computed from its
\* own bytes, header and decoded body and from the configuration.
AloneMessage(i) ==
  IF KindOf(body[i].event) = "Mention"
  THEN formatMention(body[i].data)
  ELSE formatNotification(body[i].data)

AloneResponse(i) ==
  IF request[i].raw.kind = "malformed" THEN [status |-> 400, body |-> "Bad Request"]
  ELSE LET v == verifySignature(body[i], request[i].sig, SecretOf)
           ok == [status |-> 200, body |-> "{success:true}"]
           fault == [status |-> 500, body |-> "{error:Internal error}"]
       IN IF v = "false" THEN [status |-> 401, body |-> "{error:Invalid signature}"]
          ELSE IF v = "throw" \/ body[i].t = "undefined" THEN fault
          ELSE IF KindOf(body[i].event) = "Unknown" THEN ok
          ELSE IF KindOf(body[i].event) = "System"
               THEN (IF Derefs(body[i].data) THEN ok ELSE fault)
          ELSE IF AloneMessage(i).ok THEN ok ELSE fault

OwnOutcome(i) ==
  /\ (pc[i] \notin {"idle", "decoding"} /\ request[i].raw.kind = "json")
       => body[i] = JSONparse(request[i].raw)
  /\ formatted[i] # <<>> => formatted[i] = <<AloneMessage(i).s>>
  /\ calls[i] # <<>> =>
       calls[i] = <<[token |-> config.TELEGRAM_BOT_TOKEN,
                     chat_id |-> config.TELEGRAM_CHAT_ID,
                     text |-> AloneMessage(i).s,
                     parse_mode |-> "HTML"]>>
  /\ response[i] # <<>> => response[i] = <<AloneResponse(i)>>

\* What the model keeps of the invocation of slot i.
SlotState(i) ==
  <<pc[i], request[i], body[i], formatted[i], calls[i], delivery[i], response[i]>>

\* A step of one invocation leaves every other invocation as it was.
OneSlotSteps ==
  \A i, j \in Slots :
    (i # j /\ SlotState(i)' # SlotState(i)) => SlotState(j)' = SlotState(j)

\* C14: requests in flight together are independent: in every interleaving
\* the body decoded, the message sent and the response of each request are
\* what that request yields alone, and a step of one request changes nothing
\* of another.
C14_ConcurrentRequestsIndependent ==
  /\ [](\A i \in Slots : OwnOutcome(i))
  /\ [][OneSlotSteps]_vars

\* C14 witness: two requests await their calls at once, with different
\* messages.
C14_Witness ==
  /\ pc[1] = "awaiting"
  /\ pc[2] = "awaiting"
  /\ calls[1][1].text # calls[2][1].text

\* ---- the configuration, under Spec

\* C15: the configuration is loaded once, before the server listens, and no
\* webhook or health request changes it afterwards.
C15_ConfigNeverModified == [][config' = config]_vars

\* C15 witness: a webhook request was delivered and answered and a health
\* check was answered, under a configuration with secret and transport.
C15_Witness ==
  /\ Truthy(SecretOf)
  /\ Answered200(1)
  /\ delivery[1] = "ok"
  /\ health # NoHealth
  /\ health.status = 200

\* ---- the answer and the outbound call, under Spec

\* The request of slot i is a mention or a notification.
Relayed(i) ==
  /\ body[i].t # "undefined"
  /\ KindOf(body[i].event) \in {"Mention", "Notification"}

\* C17: with transport credentials, a mention or notification is answered
\* 200 only after its outbound call has completed, with whatever outcome;
\* while the call is in flight the request has no answer.
C17_AnswerAfterCall ==
  \A i \in Slots :
    /\ (TelegramConfigured(config) /\ Relayed(i) /\ Answered200(i)) =>
         /\ Len(calls[i]) = 1
         /\ delivery[i] \in FetchOutcomes
    /\ (Len(calls[i]) > 0 /\ delivery[i] \notin FetchOutcomes) => response[i] = <<>>

\* C17 witness: a mention was answered 200 after its call failed on the
\* network.
C17_Witness ==
  /\ TelegramConfigured(config)
  /\ Relayed(1)
  /\ Answered200(1)
  /\ Len(calls[1]) = 1
  /\ delivery[1] = "network error"

\* C18: a request answered 500 issued no outbound call.
C18_FaultBeforeCall ==
  \A i \in Slots :
    (\E k \in DOMAIN response[i] : response[i][k].status = 500) => calls[i] = <<>>

\* C18 witness: with the transport configured, a mention whose data is null
\* was answered 500 out of the formatter.
C18_Witness ==
  /\ TelegramConfigured(config)
  /\ Relayed(1)
  /\ body[1].data = Null
  /\ Answered500(1)
  /\ calls[1] = <<>>

\* ---- the phases of a request, under SpecLive

\* The place of a phase in Idle, Verifying, Classifying, Formatting,
\* Delivering, Responded; decoding comes before Verifying and awaiting the
\* call belongs to Delivering.
PhaseRank(p) ==
  CASE p = "idle" -> 0
    [] p = "decoding" -> 1
    [] p = "verifying" -> 2
    [] p = "classifying" -> 3
    [] p = "formatting" -> 4
    [] p \in {"delivering", "awaiting"} -> 5
    [] p = "responded" -> 6

\* A request never goes back to an earlier phase; the slot is idle again
\* only when the request is over.
PhasesForward ==
  [][\A i \in Slots :
       IF pc'[i] = "idle"
       THEN pc[i] \in {"idle", "responded"}
       ELSE PhaseRank(pc'[i]) >= PhaseRank(pc[i])]_vars

\* A request has one response when it is in Responded and none before.
OneAnswer ==
  \A i \in Slots : Len(response[i]) = (IF pc[i] = "responded" THEN 1 ELSE 0)

\* A request received is answered.
EventuallyAnswered == (pc[1] = "decoding") ~> (pc[1] = "responded")

\* C16: a request goes through the phases in order and never back, ends
\* with exactly one response, which is 401, 200 or 500, is never answered
\* twice, and is answered in the end when its outbound call completes.
C16_PhasesInOrderOneAnswer ==
  /\ PhasesForward
  /\ []OneAnswer
  /\ [](\A i \in Slots : \A k \in DOMAIN response[i] :
          response[i][k].status \in {401, 200, 500})
  /\ EventuallyAnswered

\* The same with 400 among the answers.
PhasesInOrderOneAnswerOr400 ==
  /\ PhasesForward
  /\ []OneAnswer
  /\ [](\A i \in Slots : \A k \in DOMAIN response[i] :
          response[i][k].status \in {400, 401, 200, 500})
  /\ EventuallyAnswered

====
